---- MODULE Spec2Model ----
(***************************************************************************)
(* Model of src/core/simple_agent.py: a three-node pipeline (planner,      *)
(* researcher, responder) run once per query by the interactive loop       *)
(* run_agent, over a corpus of text blocks loaded once at import time.     *)
(*                                                                         *)
(* A text (a Python str) is a sequence of one-character strings, so that   *)
(* trimming, tokenizing, splitting and formatting are computed character   *)
(* by character as the code computes them.                                 *)
(***************************************************************************)
EXTENDS Integers, Sequences, FiniteSets

VARIABLES
    SOURCES,      \* module global SOURCES (line 47): the corpus, a sequence of blocks
    state,        \* the AgentState dict threaded through the nodes (lines 12-17, 212-218)
    user_input,   \* run_agent's local user_input (line 223)
    pc,           \* where control is: the loop head, a graph node, the route, END
    trace,        \* the nodes the graph engine has run in the current invoke, in order
    raised,       \* the exception raised inside researcher_node's try block in this turn
    submitted,    \* every query assigned to current_query so far (line 229), in order
    given,        \* the state a graph run on its own was invoked with
    returned      \* the value returned by a utility or tool called on its own

vars == <<SOURCES, state, user_input, pc, trace, raised, submitted, given, returned>>

----------------------------------------------------------------------------
(* String literals of the source.                                          *)

EmptyQueryMsg == <<"E","m","p","t","y"," ","q","u","e","r","y"," ","r","e","c","e","i","v","e","d",".">>
ErrorPrefix == <<"E","r","r","o","r",":"," ">>
SearchErrorPrefix == <<"S","e","a","r","c","h"," ","e","r","r","o","r",":"," ">>
NoSourcesHead == <<"N","o"," ","r","e","l","e","v","a","n","t"," ","s","o","u","r","c","e","s"," ","f","o","u","n","d"," ","f","o","r",":"," ","'">>
NoSourcesTail == <<"'",".","\n","T","r","y"," ","r","e","p","h","r","a","s","i","n","g"," ","y","o","u","r"," ","q","u","e","s","t","i","o","n",".">>
AnswerHead == <<"A","n","s","w","e","r"," ","b","a","s","e","d"," ","o","n"," ","s","o","u","r","c","e","s"," ","f","o","r",":"," ","'">>
AnswerHeadEnd == <<"'","\n","\n">>
ContentHeader == <<"=","=","="," ","C","O","N","T","E","N","T"," ","=","=","=","\n","\n">>
ReferencesHeader == <<"\n","=","=","="," ","R","E","F","E","R","E","N","C","E","S"," ","=","=","=","\n">>
ContentTag == <<"C","O","N","T","E","N","T",":">>
UrlTag == <<"U","R","L",":">>
TitleTag == <<"T","I","T","L","E",":">>
BlockSeparator == <<"\n","-","-","-","\n">>
ExitWord == <<"e","x","i","t">>

----------------------------------------------------------------------------
(* Character classes and the str methods the code uses: the ASCII          *)
(* characters, and one letter outside ASCII.                               *)

UpperLetters == <<"A","B","C","D","E","F","G","H","I","J","K","L","M","N","O","P","Q","R","S","T","U","V","W","X","Y","Z">>
LowerLetters == <<"a","b","c","d","e","f","g","h","i","j","k","l","m","n","o","p","q","r","s","t","u","v","w","x","y","z">>
Digits == <<"0","1","2","3","4","5","6","7","8","9">>

Range(s) == {s[i] : i \in DOMAIN s}

\* A text is a sequence of characters.  The str methods are functions of
\* texts, so that an argument is a value when the method body reads it.
Text == Seq(STRING)

\* str.isspace for one character: what strip(), split() and the regex class \s treat as blank
SpaceChars == {" ", "\t", "\n", "\r", "\f"}

\* a str holds Unicode characters: the small letter sharp s (U+00DF), which
\* str.lower() leaves as it is
OtherLetters == {"ß"}

\* the regex class \w: letters, digits and the underscore
WordChars ==
    Range(UpperLetters) \cup Range(LowerLetters) \cup OtherLetters \cup Range(Digits) \cup {"_"}

IsSpace(c) == c \in SpaceChars

IsWord(c) == c \in WordChars

LowerOf == [c \in Range(UpperLetters) |->
               LowerLetters[CHOOSE i \in DOMAIN UpperLetters : UpperLetters[i] = c]]

LowerChar(c) == IF c \in DOMAIN LowerOf THEN LowerOf[c] ELSE c

\* str.lower()
lower[text \in Text] == [i \in DOMAIN text |-> LowerChar(text[i])]

\* str.lstrip(), str.rstrip(), str.strip(): drop the leading and the trailing blanks
lstrip[text \in Text] ==
    IF text # <<>> /\ IsSpace(text[1]) THEN lstrip[Tail(text)] ELSE text

rstrip[text \in Text] ==
    IF text # <<>> /\ IsSpace(text[Len(text)])
    THEN rstrip[SubSeq(text, 1, Len(text) - 1)]
    ELSE text

strip[text \in Text] == rstrip[lstrip[text]]

\* str.split() without argument, as a set: the maximal runs of non-blank
\* characters of text, `word` being the run read so far
split_words[text \in Text, word \in Text] ==
    IF text = <<>> THEN (IF word = <<>> THEN {} ELSE {word})
    ELSE IF IsSpace(text[1])
         THEN (IF word = <<>> THEN {} ELSE {word}) \cup split_words[Tail(text), <<>>]
         ELSE split_words[Tail(text), Append(word, text[1])]

SplitWords(text) == split_words[text, <<>>]

\* str.startswith(prefix)
StartsWith(text, prefix) ==
    /\ Len(prefix) <= Len(text)
    /\ SubSeq(text, 1, Len(prefix)) = prefix

Drop(text, n) == SubSeq(text, n + 1, Len(text))

\* the index of the first occurrence of sep in text at or after i, 0 when
\* there is none (str.find + 1)
find_from[text \in Text, sep \in Text, i \in Nat] ==
    IF i + Len(sep) - 1 > Len(text) THEN 0
    ELSE IF SubSeq(text, i, i + Len(sep) - 1) = sep THEN i
    ELSE find_from[text, sep, i + 1]

FindFirst(text, sep) == find_from[text, sep, 1]

\* str.split(sep), sep non-empty: cut at each occurrence, left to right
SplitOn[text \in Text, sep \in Text] ==
    IF FindFirst(text, sep) = 0 THEN <<text>>
    ELSE <<SubSeq(text, 1, FindFirst(text, sep) - 1)>>
             \o SplitOn[Drop(text, FindFirst(text, sep) + Len(sep) - 1), sep]

\* str.replace(tag, ""): delete each occurrence, left to right
RemoveAll[text \in Text, tag \in Text] ==
    IF FindFirst(text, tag) = 0 THEN text
    ELSE SubSeq(text, 1, FindFirst(text, tag) - 1)
             \o RemoveAll[Drop(text, FindFirst(text, tag) + Len(tag) - 1), tag]

\* sep.join(parts)
JoinWith[parts \in Seq(Text), sep \in Text] ==
    IF parts = <<>> THEN <<>>
    ELSE IF Len(parts) = 1 THEN parts[1]
    ELSE parts[1] \o sep \o JoinWith[Tail(parts), sep]

\* str(i) for i >= 0, as the f-string "[{i}]" formats the index
IntToStr[i \in Nat] ==
    IF i < 10 THEN <<Digits[i + 1]>>
    ELSE IntToStr[i \div 10] \o <<Digits[(i % 10) + 1]>>

----------------------------------------------------------------------------
(* Utility: tokenize (lines 24-28).                                        *)

tokenize(text) ==
    SplitWords(SelectSeq(lower[text], LAMBDA c : IsWord(c) \/ IsSpace(c)))

----------------------------------------------------------------------------
(* Source loading (lines 35-47).  A file is absent, or holds a text.       *)

AbsentFile == [exists |-> FALSE, text |-> <<>>]

load_sources(file) ==
    IF file.exists THEN SplitOn[file.text, BlockSeparator] ELSE <<>>

----------------------------------------------------------------------------
(* Tool: search_sources (lines 54-64), over a corpus.                      *)

RECURSIVE search_in_union(_, _)
\* search_sources with | for & at line 61
search_in_union(query_tokens, blocks) ==
    IF blocks = <<>> THEN <<>>
    ELSE LET block == Head(blocks)
             block_tokens == tokenize(block)
         IN  (IF query_tokens \cup block_tokens # {} THEN <<strip[block]>> ELSE <<>>)
                 \o search_in_union(query_tokens, Tail(blocks))

RECURSIVE search_in_newest_first(_, _)
\* search_sources with matches.insert(0, ...) for matches.append(...) at line 62
search_in_newest_first(query_tokens, blocks) ==
    IF blocks = <<>> THEN <<>>
    ELSE LET block == Head(blocks)
             block_tokens == tokenize(block)
         IN  search_in_newest_first(query_tokens, Tail(blocks))
                 \o (IF query_tokens \cap block_tokens # {} THEN <<strip[block]>> ELSE <<>>)

RECURSIVE search_in(_, _)
search_in(query_tokens, blocks) ==
    IF blocks = <<>> THEN <<>>
    ELSE LET block == Head(blocks)
             block_tokens == tokenize(block)
         IN  (IF query_tokens \cap block_tokens # {} THEN <<strip[block]>> ELSE <<>>)
                 \o search_in(query_tokens, Tail(blocks))

search_sources(query) == search_in(tokenize(query), SOURCES)

----------------------------------------------------------------------------
(* Tool: summarize_sources (lines 71-92).  The summary is only printed by  *)
(* researcher_node, never stored in the state.  The topics are the first   *)
(* three elements of a Python set in iteration order, which the language   *)
(* leaves open: summarize_sources is the set of the summaries a call can   *)
(* return.                                                                 *)

MinTopicLen == 4          \* line 89: a topic word is longer than this
MaxTopicsPerSource == 3   \* line 90: at most this many words per source

\* `src in text`
Contains(text, tag) == FindFirst(text, tag) # 0

\* line 89
meaningful_words(src) == {w \in tokenize(src) : Len(w) > MinTopicLen}

\* line 90: what list(words)[:3] can hold
first_words(words) ==
    {t \in SUBSET words :
        Cardinality(t) = (IF Cardinality(words) < MaxTopicsPerSource
                          THEN Cardinality(words) ELSE MaxTopicsPerSource)}

\* lines 86-90: the topics a loop over sources can collect
topics_of[sources \in Seq(Text)] ==
    IF sources = <<>> THEN {{}}
    ELSE {t \cup rest : t \in first_words(meaningful_words(Head(sources))),
                        rest \in topics_of[Tail(sources)]}

\* summarize_sources testing src.startswith("URL:") and src.startswith("TITLE:")
summarize_sources_prefix_only(sources) ==
    {[total_sources |-> Len(sources),
      url_sources   |-> Cardinality({i \in DOMAIN sources : StartsWith(sources[i], UrlTag)}),
      title_sources |-> Cardinality({i \in DOMAIN sources : StartsWith(sources[i], TitleTag)}),
      topics        |-> t] : t \in topics_of[sources]}

summarize_sources(sources) ==
    {[total_sources |-> Len(sources),
      url_sources   |-> Cardinality({i \in DOMAIN sources : Contains(sources[i], UrlTag)}),
      title_sources |-> Cardinality({i \in DOMAIN sources : Contains(sources[i], TitleTag)}),
      topics        |-> t] : t \in topics_of[sources]}

----------------------------------------------------------------------------
(* Graph nodes (lines 99-169).  A node maps the state dict to the state    *)
(* dict it returns.                                                        *)

\* planner_node with the test of line 101 inverted
planner_node_inverted(st) ==
    IF strip[st.current_query] # <<>>
    THEN [st EXCEPT !.error = EmptyQueryMsg]
    ELSE [st EXCEPT !.error = <<>>]

\* planner_node testing the tokens of the query instead of its trimmed text
planner_node_tests_tokens(st) ==
    IF tokenize(st.current_query) = {}
    THEN [st EXCEPT !.error = EmptyQueryMsg]
    ELSE [st EXCEPT !.error = <<>>]

\* planner_node without the else branch of lines 103-104
planner_node_keeps_error(st) ==
    IF strip[st.current_query] = <<>>
    THEN [st EXCEPT !.error = EmptyQueryMsg]
    ELSE st

\* planner_node also emptying the fields the later nodes write
planner_node_resets_outputs(st) ==
    IF strip[st.current_query] = <<>>
    THEN [st EXCEPT !.error = EmptyQueryMsg, !.retrieved_sources = <<>>, !.final_answer = <<>>]
    ELSE [st EXCEPT !.error = <<>>, !.retrieved_sources = <<>>, !.final_answer = <<>>]

planner_node(st) ==
    IF strip[st.current_query] = <<>>
    THEN [st EXCEPT !.error = EmptyQueryMsg]
    ELSE [st EXCEPT !.error = <<>>]

\* What the try block of researcher_node can meet: no exception, an exception
\* raised before line 112 stores the result, or one raised by the report of
\* lines 114-117 (summarize_sources and print, run only when something was
\* found).  msg is str(e).
NoException == [at |-> "none", msg |-> <<>>]

\* the handler without line 120
except_handler_keeps_sources(st, e) ==
    [st EXCEPT !.error = SearchErrorPrefix \o e.msg]

\* lines 118-120
except_handler(st, e) ==
    [st EXCEPT !.error = SearchErrorPrefix \o e.msg,
               !.retrieved_sources = <<>>]

researcher_node(st, e) ==
    IF e.at = "search" THEN except_handler(st, e)
    ELSE LET sources == search_sources(st.current_query)
             found   == [st EXCEPT !.retrieved_sources = sources]
         IN  IF e.at = "report" /\ sources # <<>>
             THEN except_handler(found, e)
             ELSE found

\* lines 150-156: the last CONTENT: line and the last URL:/TITLE: line win
scan_lines[lines \in Seq(Text), content \in Text, source_ref \in Text] ==
    IF lines = <<>> THEN [content |-> content, source_ref |-> source_ref]
    ELSE IF StartsWith(Head(lines), ContentTag)
    THEN scan_lines[Tail(lines), strip[RemoveAll[Head(lines), ContentTag]], source_ref]
    ELSE IF StartsWith(Head(lines), UrlTag)
    THEN scan_lines[Tail(lines), content, strip[RemoveAll[Head(lines), UrlTag]]]
    ELSE IF StartsWith(Head(lines), TitleTag)
    THEN scan_lines[Tail(lines), content, strip[RemoveAll[Head(lines), TitleTag]]]
    ELSE scan_lines[Tail(lines), content, source_ref]

\* lines 146-156 for one source
extract_fields(src) == scan_lines[SplitOn[strip[src], <<"\n">>], <<>>, <<>>]

\* the label with enumerate(retrieved_sources) counting from 0 at line 145
Bracketed_from_zero(i) == <<"[">> \o IntToStr[i - 1] \o <<"]", " ">>

\* "[{i}] " of lines 159 and 162
Bracketed(i) == <<"[">> \o IntToStr[i] \o <<"]", " ">>

\* lines 145-162: the loop over enumerate(retrieved_sources, 1), i being the
\* index of the next source
render_sources[sources \in Seq(Text), i \in Nat, answer \in Text, references \in Seq(Text)] ==
    IF i > Len(sources) THEN [answer |-> answer, references |-> references]
    ELSE render_sources[
            sources,
            i + 1,
            IF extract_fields(sources[i]).content # <<>>
            THEN answer \o Bracketed(i) \o extract_fields(sources[i]).content \o <<"\n", "\n">>
            ELSE answer,
            IF extract_fields(sources[i]).source_ref # <<>>
            THEN Append(references, Bracketed(i) \o extract_fields(sources[i]).source_ref)
            ELSE references]

\* lines 134-137
no_sources_answer(query) == NoSourcesHead \o query \o NoSourcesTail

\* lines 140-168
content_answer(query, sources) ==
    LET r == render_sources[sources, 1, AnswerHead \o query \o AnswerHeadEnd \o ContentHeader, <<>>]
    IN  IF r.references # <<>>
        THEN r.answer \o ReferencesHeader \o JoinWith[r.references, <<"\n">>]
        ELSE r.answer

\* responder_node reporting the error only when nothing was retrieved
responder_node_error_last(st) ==
    IF st.error # <<>> /\ st.retrieved_sources = <<>>
    THEN [st EXCEPT !.final_answer = ErrorPrefix \o st.error]
    ELSE IF st.retrieved_sources = <<>>
    THEN [st EXCEPT !.final_answer = no_sources_answer(st.current_query)]
    ELSE [st EXCEPT !.final_answer = content_answer(st.current_query, st.retrieved_sources)]

\* responder_node with the tests of lines 129 and 133 in the other order
responder_node_sources_first(st) ==
    IF st.retrieved_sources = <<>>
    THEN [st EXCEPT !.final_answer = no_sources_answer(st.current_query)]
    ELSE IF st.error # <<>>
    THEN [st EXCEPT !.final_answer = ErrorPrefix \o st.error]
    ELSE [st EXCEPT !.final_answer = content_answer(st.current_query, st.retrieved_sources)]

responder_node(st) ==
    IF st.error # <<>>
    THEN [st EXCEPT !.final_answer = ErrorPrefix \o st.error]
    ELSE IF st.retrieved_sources = <<>>
    THEN [st EXCEPT !.final_answer = no_sources_answer(st.current_query)]
    ELSE [st EXCEPT !.final_answer = content_answer(st.current_query, st.retrieved_sources)]

----------------------------------------------------------------------------
(* Conditional logic and the graph (lines 176-204).                        *)

has_error(st) == IF st.error # <<>> THEN "error" ELSE "ok"

entry_point == "planner"

\* the mapping of lines 195-198 with its targets exchanged
conditional_edges_swapped == [error |-> "researcher", ok |-> "responder"]

conditional_edges == [error |-> "responder", ok |-> "researcher"]

\* the graph with line 201 as add_edge("researcher", END)
next_node_researcher_ends(node, st) ==
    CASE node = "planner"    -> conditional_edges[has_error(st)]
      [] node = "researcher" -> "END"
      [] node = "responder"  -> "END"

\* the node the engine runs after `node` has returned st
next_node(node, st) ==
    CASE node = "planner"    -> conditional_edges[has_error(st)]
      [] node = "researcher" -> "responder"
      [] node = "responder"  -> "END"

----------------------------------------------------------------------------
(* The environment: what the corpus file holds, what the user types, and   *)
(* what the Researching stage can meet.                                    *)

MaxBlocks == 2    \* a corpus file holds at most this many blocks
MaxTurns == 2     \* a session answers at most this many queries before "exit"

\* The blocks a corpus file is made of: an empty text, a one-token block, a
\* block with capitals, punctuation and surrounding blanks, a two-token
\* block, and a block with URL: and CONTENT: lines.
Blocks ==
    { <<>>,
      <<"b">>,
      <<" ","B",".","\n">>,
      <<"a"," ","b">>,
      <<"U","R","L",":"," ","u","\n","C","O","N","T","E","N","T",":"," ","b">> }

SeqsUpTo(S, n) == UNION {[1..k -> S] : k \in 0..n}

\* the file of line 38: absent, or the blocks joined by the separator line
FilesUpTo(n) ==
    {AbsentFile} \cup
    {[exists |-> TRUE, text |-> JoinWith[bs, BlockSeparator]] : bs \in SeqsUpTo(Blocks, n) \ {<<>>}}

Files == FilesUpTo(MaxBlocks)

\* The lines the user types at the prompt: nothing, blanks only, a word, a
\* capitalised word between blanks, a word with punctuation, punctuation
\* only; and two spellings of the exit command.
RawInputs ==
    { <<>>,
      <<" "," ">>,
      <<"b">>,
      <<" ","B"," ">>,
      <<"a",".">>,
      <<".">>,
      <<"e","x","i","t">>,
      <<" ","E","X","I","T">> }

\* str(e) of an exception caught at line 118
Causes == { <<>>, <<"x">> }

Exceptions ==
    {NoException} \cup {[at |-> a, msg |-> m] : a \in {"search", "report"}, m \in Causes}

----------------------------------------------------------------------------
(* run_agent (lines 211-251) and the graph engine's steps.                 *)

\* lines 212-218
InitialState ==
    [conversation_history |-> <<>>,
     current_query        |-> <<>>,
     retrieved_sources    |-> <<>>,
     final_answer         |-> <<>>,
     error                |-> <<>>]

\* lines 248-251 assigning the history instead of appending to it
maintain_memory_resets_history(st, query) ==
    [st EXCEPT !.conversation_history = <<query>>,
               !.retrieved_sources = <<>>,
               !.final_answer = <<>>,
               !.error = <<>>]

\* lines 248-250, without line 251
maintain_memory_keeps_error(st, query) ==
    [st EXCEPT !.conversation_history = Append(@, query),
               !.retrieved_sources = <<>>,
               !.final_answer = <<>>]

\* lines 248-251
maintain_memory(st, query) ==
    [st EXCEPT !.conversation_history = Append(@, query),
               !.retrieved_sources = <<>>,
               !.final_answer = <<>>,
               !.error = <<>>]

Init ==
    /\ SOURCES \in {load_sources(f) : f \in Files}
    /\ state = InitialState
    /\ user_input = <<>>
    /\ pc = "input"
    /\ trace = <<>>
    /\ raised = NoException
    /\ submitted = <<>>
    /\ given = <<>>
    /\ returned = <<>>

\* lines 223-232: read a line; "exit" ends the loop, anything else becomes
\* the current query and the graph is invoked at its entry point
ReadInput ==
    /\ pc = "input"
    /\ \E raw \in RawInputs :
        LET line == strip[raw]
        IN  /\ user_input' = line
            /\ IF lower[line] = ExitWord
               THEN /\ pc' = "ended"
                    /\ UNCHANGED <<state, trace, raised, submitted>>
               ELSE /\ Len(state.conversation_history) < MaxTurns
                    /\ state' = [state EXCEPT !.current_query = line]
                    /\ submitted' = Append(submitted, line)
                    /\ trace' = <<>>
                    /\ raised' = NoException
                    /\ pc' = entry_point
    /\ UNCHANGED <<SOURCES, given, returned>>

Planner ==
    /\ pc = "planner"
    /\ state' = planner_node(state)
    /\ trace' = Append(trace, "planner")
    /\ pc' = "route"
    /\ UNCHANGED <<SOURCES, user_input, raised, submitted, given, returned>>

\* the conditional edge of lines 192-199, evaluated once planner_node has returned
Route ==
    /\ pc = "route"
    /\ pc' = next_node("planner", state)
    /\ UNCHANGED <<SOURCES, state, user_input, trace, raised, submitted, given, returned>>

Researcher ==
    /\ pc = "researcher"
    /\ \E e \in Exceptions :
        /\ e.at = "report" => search_sources(state.current_query) # <<>>
        /\ raised' = e
        /\ state' = researcher_node(state, e)
    /\ trace' = Append(trace, "researcher")
    /\ pc' = next_node("researcher", state')
    /\ UNCHANGED <<SOURCES, user_input, submitted, given, returned>>

Responder ==
    /\ pc = "responder"
    /\ state' = responder_node(state)
    /\ trace' = Append(trace, "responder")
    /\ pc' = next_node("responder", state')
    /\ UNCHANGED <<SOURCES, user_input, raised, submitted, given, returned>>

\* lines 232-251: invoke returns the state, the answer is printed, the query
\* joins the history and the per-turn fields are cleared
EndTurn ==
    /\ pc = "END"
    /\ state' = maintain_memory(state, user_input)
    /\ pc' = "input"
    /\ UNCHANGED <<SOURCES, user_input, trace, raised, submitted, given, returned>>

Next ==
    \/ ReadInput
    \/ Planner
    \/ Route
    \/ Researcher
    \/ Responder
    \/ EndTurn

Spec == Init /\ [][Next]_vars

\* agent.invoke is synchronous: a node that can run does run, and invoke
\* returns; only the prompt of line 223 waits for something outside the
\* program.
FairSpec ==
    /\ Spec
    /\ WF_vars(Planner)
    /\ WF_vars(Route)
    /\ WF_vars(Researcher)
    /\ WF_vars(Responder)

----------------------------------------------------------------------------
(* Properties of a session (specification Spec).                           *)

EmptyQueryAnswer == <<"E","r","r","o","r",":"," ","E","m","p","t","y"," ","q","u","e","r","y"," ","r","e","c","e","i","v","e","d",".">>
SearchErrorHead == <<"S","e","a","r","c","h"," ","e","r","r","o","r",":"," ">>
SearchErrorAnswerHead == <<"E","r","r","o","r",":"," ","S","e","a","r","c","h"," ","e","r","r","o","r",":"," ">>
NoMatchOpen == <<"N","o"," ","r","e","l","e","v","a","n","t"," ","s","o","u","r","c","e","s"," ","f","o","u","n","d"," ","f","o","r",":"," ","'">>
NoMatchClose == <<"'",".","\n","T","r","y"," ","r","e","p","h","r","a","s","i","n","g"," ","y","o","u","r"," ","q","u","e","s","t","i","o","n",".">>
ErrorFormHead == <<"E","r","r","o","r",":"," ">>
ContentFormOpen == <<"A","n","s","w","e","r"," ","b","a","s","e","d"," ","o","n"," ","s","o","u","r","c","e","s"," ","f","o","r",":"," ","'">>
ContentFormClose == <<"'","\n","\n","=","=","="," ","C","O","N","T","E","N","T"," ","=","=","=","\n","\n">>

QueryIsEmpty == strip[state.current_query] = <<>>

\* C1: at the end of every turn whose trimmed query is empty, the final
\* answer is "Error: Empty query received." and no source is retrieved,
\* whatever the earlier turns were.
C1_EmptyQueryRejected ==
    (pc = "END" /\ QueryIsEmpty) =>
        /\ state.final_answer = EmptyQueryAnswer
        /\ state.retrieved_sources = <<>>

\* an empty query answered after an earlier turn with a non-empty query
C1_Witness ==
    /\ pc = "END"
    /\ QueryIsEmpty
    /\ state.conversation_history # <<>>
    /\ state.conversation_history[1] # <<>>

\* C2: in a turn whose trimmed query is empty the graph runs planner and
\* then responder; researcher is neither the current node nor among the
\* nodes run.
C2_EmptyQuerySkipsResearch ==
    QueryIsEmpty =>
        /\ pc # "researcher"
        /\ "researcher" \notin Range(trace)
        /\ pc = "responder" => trace = <<"planner">>
        /\ pc = "END" => trace = <<"planner", "responder">>

C2_Witness ==
    /\ pc = "END"
    /\ QueryIsEmpty
    /\ trace = <<"planner", "responder">>

ErrorIsRendered ==
    state.error # <<>> => state.final_answer = ErrorFormHead \o state.error

\* C3 as stated: in every reachable state, a non-empty error comes with the
\* final answer "Error: " + error.
C3_Original == ErrorIsRendered

\* C3, amended: once responder has run (the state invoke returns) and
\* between turns, a non-empty error comes with the final answer
\* "Error: " + error.
C3_ErrorRenderedAfterResponding ==
    pc \in {"END", "input", "ended"} => ErrorIsRendered

C3_Witness ==
    /\ pc = "END"
    /\ state.error # <<>>
    /\ state.final_answer = ErrorFormHead \o state.error

\* C4: an exception raised in the Researching stage is caught there: error
\* is "Search error: " + str(e), the retrieved sources are empty, responder
\* runs next, and the turn ends with "Error: Search error: " + str(e).
C4_RetrievalFailureCaught ==
    raised.at # "none" =>
        /\ pc \in {"responder", "END", "input", "ended"}
        /\ pc \in {"responder", "END"} =>
              /\ state.error = SearchErrorHead \o raised.msg
              /\ state.retrieved_sources = <<>>
        /\ pc = "responder" => ENABLED Responder
        /\ pc = "END" =>
              /\ state.final_answer = SearchErrorAnswerHead \o raised.msg
              /\ trace = <<"planner", "researcher", "responder">>

\* the report of lines 114-117 failed after matching blocks had been stored
C4_Witness ==
    /\ pc = "END"
    /\ raised.at = "report"
    /\ raised.msg # <<>>
    /\ search_sources(state.current_query) # <<>>

NoBlockSharesToken ==
    \A i \in DOMAIN SOURCES :
        ~ \E w \in tokenize(state.current_query) : w \in tokenize(SOURCES[i])

\* C5: a turn with a non-empty trimmed query, no corpus block sharing a
\* token with it and no exception ends with error empty, no source and
\* the answer "No relevant sources found for: '<query>'.\nTry rephrasing
\* your question."
C5_NoMatchAnswer ==
    (pc = "END" /\ ~QueryIsEmpty /\ NoBlockSharesToken /\ raised = NoException) =>
        /\ state.error = <<>>
        /\ state.retrieved_sources = <<>>
        /\ state.final_answer = NoMatchOpen \o state.current_query \o NoMatchClose

\* a corpus with blocks, none of them sharing a token with a query that has one
C5_Witness ==
    /\ pc = "END"
    /\ raised = NoException
    /\ tokenize(state.current_query) # {}
    /\ \E i \in DOMAIN SOURCES : tokenize(SOURCES[i]) # {}
    /\ NoBlockSharesToken

IsPrefix(a, b) == Len(a) <= Len(b) /\ SubSeq(b, 1, Len(a)) = a

InGraph == {"planner", "route", "researcher", "responder"}

\* C7: conversation_history only grows at its end; no graph node changes
\* it; between turns it is the sequence of the queries submitted so far,
\* and during a turn the sequence of the queries of the past turns.
C7_HistoryAppendOnly ==
    /\ [][/\ IsPrefix(state.conversation_history, state'.conversation_history)
          /\ pc \in InGraph => state'.conversation_history = state.conversation_history]_vars
    /\ [](pc \in {"input", "ended"} => state.conversation_history = submitted)
    /\ [](pc \in InGraph \cup {"END"} =>
            Append(state.conversation_history, state.current_query) = submitted)

\* two completed turns with different queries
C7_Witness ==
    /\ pc = "input"
    /\ Len(state.conversation_history) = 2
    /\ state.conversation_history[1] # state.conversation_history[2]
    /\ state.conversation_history = submitted

\* C8: on entry to planner the state holds the new query, and error, final
\* answer and retrieved sources are empty: only the history is carried over.
C8_TurnStartsClean ==
    pc = "planner" =>
        /\ submitted # <<>>
        /\ state.current_query = submitted[Len(submitted)]
        /\ state.error = <<>>
        /\ state.final_answer = <<>>
        /\ state.retrieved_sources = <<>>
        /\ state = [InitialState EXCEPT !.conversation_history = state.conversation_history,
                                        !.current_query = user_input]

\* the start of a second turn
C8_Witness ==
    /\ pc = "planner"
    /\ state.conversation_history # <<>>
    /\ trace = <<>>

NoRepeat(s) == \A i, j \in DOMAIN s : s[i] = s[j] => i = j

\* C9: every turn that enters planner reaches END with responder the last
\* node run; the nodes run are planner, responder or planner, researcher,
\* responder; no node runs twice, researcher is directly followed by
\* responder, and the final answer is set.
C9_TurnCompletes ==
    /\ (pc = "planner") ~> (pc = "END")
    /\ [](pc = "END" =>
            /\ trace \in {<<"planner", "responder">>, <<"planner", "researcher", "responder">>}
            /\ state.final_answer # <<>>)
    /\ [](/\ NoRepeat(trace)
          /\ \A i \in DOMAIN trace :
                trace[i] = "researcher" =>
                    \/ i = Len(trace) /\ pc = "responder"
                    \/ i < Len(trace) /\ trace[i + 1] = "responder")

C9_Witness ==
    /\ pc = "END"
    /\ trace = <<"planner", "researcher", "responder">>
    /\ raised.at = "search"

----------------------------------------------------------------------------
(* search_sources on its own: every corpus of up to MaxSearchBlocks        *)
(* blocks, every query of up to MaxQueryLen characters.                    *)

MaxSearchBlocks == 3
MaxQueryLen == 3

QueryChars == {"a", "b", "B", " ", "."}

InitSearch ==
    /\ SOURCES \in {load_sources(f) : f \in FilesUpTo(MaxSearchBlocks)}
    /\ state \in {[InitialState EXCEPT !.current_query = q] : q \in SeqsUpTo(QueryChars, MaxQueryLen)}
    /\ user_input = <<>>
    /\ pc = "call"
    /\ trace = <<>>
    /\ raised = NoException
    /\ submitted = <<>>
    /\ given = <<>>
    /\ returned = <<>>

\* line 111
CallSearch ==
    /\ pc = "call"
    /\ state' = [state EXCEPT !.retrieved_sources = search_sources(state.current_query)]
    /\ pc' = "return"
    /\ UNCHANGED <<SOURCES, user_input, trace, raised, submitted, given, returned>>

NextSearch == CallSearch

SpecSearch == InitSearch /\ [][NextSearch]_vars

SharesToken(query, block) == \E w \in tokenize(query) : w \in tokenize(block)

\* C6: search returns the trimmed blocks that share a token with the query,
\* all of them and only them, in corpus order: the k-th result is the
\* k-th matching block of the corpus.
C6_SearchIsOrderedFilter ==
    pc = "return" =>
        LET result   == state.retrieved_sources
            matching == {i \in DOMAIN SOURCES : SharesToken(state.current_query, SOURCES[i])}
        IN  /\ Len(result) = Cardinality(matching)
            /\ \A i \in matching :
                  result[Cardinality({j \in matching : j <= i})] = strip[SOURCES[i]]

\* a corpus [A, B, C] of which only B and C match, B with blanks to trim
C6_Witness ==
    /\ pc = "return"
    /\ Len(SOURCES) = 3
    /\ ~SharesToken(state.current_query, SOURCES[1])
    /\ state.retrieved_sources = <<strip[SOURCES[2]], strip[SOURCES[3]]>>
    /\ strip[SOURCES[2]] # SOURCES[2]
    /\ strip[SOURCES[2]] # strip[SOURCES[3]]

----------------------------------------------------------------------------
(* responder_node on its own: every combination of error, retrieved        *)
(* sources and query.                                                      *)

Errors == {<<>>, EmptyQueryMsg} \cup {SearchErrorPrefix \o c : c \in Causes}

InitRespond ==
    /\ SOURCES = <<>>
    /\ state \in [conversation_history : {<<>>},
                  current_query : {strip[r] : r \in RawInputs},
                  retrieved_sources : SeqsUpTo(Blocks \cup {strip[b] : b \in Blocks}, MaxBlocks),
                  final_answer : {<<>>},
                  error : Errors]
    /\ user_input = <<>>
    /\ pc = "call"
    /\ trace = <<>>
    /\ raised = NoException
    /\ submitted = <<>>
    /\ given = <<>>
    /\ returned = <<>>

CallResponder ==
    /\ pc = "call"
    /\ state' = responder_node(state)
    /\ pc' = "return"
    /\ UNCHANGED <<SOURCES, user_input, trace, raised, submitted, given, returned>>

NextRespond == CallResponder

SpecRespond == InitRespond /\ [][NextRespond]_vars

IsErrorForm(answer) == StartsWith(answer, ErrorFormHead)
IsNoSourcesForm(answer) == StartsWith(answer, NoMatchOpen)
IsContentForm(answer) == StartsWith(answer, ContentFormOpen)

\* C10: responder renders "Error: " + error when error is non-empty,
\* whatever the sources; otherwise the no-sources message when there is no
\* source; otherwise the content answer.  An answer has exactly one of the
\* three forms.
C10_ResponderPriority ==
    pc = "return" =>
        LET answer == state.final_answer
        IN  /\ state.error # <<>> => answer = ErrorFormHead \o state.error
            /\ (state.error = <<>> /\ state.retrieved_sources = <<>>) =>
                  answer = NoMatchOpen \o state.current_query \o NoMatchClose
            /\ (state.error = <<>> /\ state.retrieved_sources # <<>>) =>
                  StartsWith(answer, ContentFormOpen \o state.current_query \o ContentFormClose)
            /\ IsErrorForm(answer) <=> state.error # <<>>
            /\ IsNoSourcesForm(answer) <=> (state.error = <<>> /\ state.retrieved_sources = <<>>)
            /\ IsContentForm(answer) <=> (state.error = <<>> /\ state.retrieved_sources # <<>>)

\* an error rendered although sources are present
C10_Witness ==
    /\ pc = "return"
    /\ state.error # <<>>
    /\ state.retrieved_sources # <<>>
    /\ state.final_answer = ErrorFormHead \o state.error

----------------------------------------------------------------------------
(* responder_node on one retrieved source: every block of up to            *)
(* MaxFieldLines lines, as search_sources returns it (trimmed).            *)

MaxFieldLines == 3

\* The lines a block is made of: a URL:, a TITLE: and a CONTENT: line, a
\* URL: line with nothing after the prefix, a line without prefix, a URL:
\* line in which the prefix occurs again, and a TITLE: line after a blank.
FieldLines ==
    { <<"U","R","L",":"," ","u">>,
      <<"T","I","T","L","E",":"," ","t">>,
      <<"C","O","N","T","E","N","T",":"," ","c">>,
      <<"U","R","L",":">>,
      <<"x">>,
      <<"U","R","L",":"," ","u","U","R","L",":","v">>,
      <<" ","T","I","T","L","E",":"," ","w">> }

FieldBlocks ==
    {strip[JoinWith[ls, <<"\n">>]] : ls \in SeqsUpTo(FieldLines, MaxFieldLines) \ {<<>>}}

InitExtract ==
    /\ SOURCES = <<>>
    /\ state \in {[InitialState EXCEPT !.current_query = <<"q">>,
                                       !.retrieved_sources = <<b>>] : b \in FieldBlocks}
    /\ user_input = <<>>
    /\ pc = "call"
    /\ trace = <<>>
    /\ raised = NoException
    /\ submitted = <<>>
    /\ given = <<>>
    /\ returned = <<>>

SpecExtract == InitExtract /\ [][NextRespond]_vars

ReferencesFormHead == <<"\n","=","=","="," ","R","E","F","E","R","E","N","C","E","S"," ","=","=","=","\n">>
FirstLabel == <<"[","1","]"," ">>
ReferenceMarks == {<<"U","R","L",":">>, <<"T","I","T","L","E",":">>}
ContentMarks == {<<"C","O","N","T","E","N","T",":">>}

\* mark occurs somewhere in block
HasSubstring(block, mark) ==
    \E i \in 1..Len(block) :
        /\ i + Len(mark) - 1 <= Len(block)
        /\ SubSeq(block, i, i + Len(mark) - 1) = mark

LinesOf(block) == SplitOn[strip[block], <<"\n">>]

\* the last line of the block that starts with one of the marks, 0 when none does
LastLineWith(block, marks) ==
    LET found == {i \in DOMAIN LinesOf(block) :
                    \E m \in marks : StartsWith(LinesOf(block)[i], m)}
    IN  IF found = {} THEN 0 ELSE CHOOSE i \in found : \A j \in found : j <= i

\* the trimmed text after the mark the line starts with
TextAfterMark(line, marks) ==
    LET m == CHOOSE m \in marks : StartsWith(line, m)
    IN  strip[Drop(line, Len(m))]

FieldAfterLastMark(block, marks) ==
    IF LastLineWith(block, marks) = 0 THEN <<>>
    ELSE TextAfterMark(LinesOf(block)[LastLineWith(block, marks)], marks)

\* C11 as stated: the content shown for a source is the text after the
\* prefix of its last CONTENT: line, its reference the text after the
\* prefix of its last URL: or TITLE: line, and a block without such a line
\* contributes no content, no reference.
C11_FieldsAfterPrefix ==
    pc = "return" =>
        LET block     == state.retrieved_sources[1]
            content   == FieldAfterLastMark(block, ContentMarks)
            reference == FieldAfterLastMark(block, ReferenceMarks)
        IN  state.final_answer =
                ContentFormOpen \o state.current_query \o ContentFormClose
                \o (IF content # <<>> THEN FirstLabel \o content \o <<"\n", "\n">> ELSE <<>>)
                \o (IF reference # <<>>
                    THEN ReferencesFormHead \o FirstLabel \o reference
                    ELSE <<>>)

----------------------------------------------------------------------------
(* responder_node on several retrieved sources: every list of up to        *)
(* MaxRenderSources blocks, with or without content, with or without       *)
(* reference.                                                              *)

MaxRenderSources == 3

\* a block with both fields, with content only, with a title only, with
\* neither, and with a reference and a CONTENT: line that holds nothing
RenderBlocks ==
    { <<"C","O","N","T","E","N","T",":"," ","c","\n","U","R","L",":"," ","u">>,
      <<"C","O","N","T","E","N","T",":"," ","d">>,
      <<"T","I","T","L","E",":"," ","t">>,
      <<"x">>,
      <<"C","O","N","T","E","N","T",":","\n","U","R","L",":"," ","v">> }

InitRender ==
    /\ SOURCES = <<>>
    /\ state \in {[InitialState EXCEPT !.current_query = <<"q">>,
                                       !.retrieved_sources = bs] :
                    bs \in SeqsUpTo(RenderBlocks, MaxRenderSources) \ {<<>>}}
    /\ user_input = <<>>
    /\ pc = "call"
    /\ trace = <<>>
    /\ raised = NoException
    /\ submitted = <<>>
    /\ given = <<>>
    /\ returned = <<>>

SpecRender == InitRender /\ [][NextRespond]_vars

DecimalDigits == <<"1","2","3","4","5","6","7","8","9">>

\* "[i] " for an index of one digit
Label(i) == <<"[", DecimalDigits[i], "]", " ">>

ContentOfSource(i) == FieldAfterLastMark(state.retrieved_sources[i], ContentMarks)
ReferenceOfSource(i) == FieldAfterLastMark(state.retrieved_sources[i], ReferenceMarks)

\* C12: in a content answer the i-th source is the one labelled [i]; the
\* body holds the entry "[i] <content>" exactly for the sources with a
\* non-empty content, the references section the entry "[i] <reference>"
\* exactly for the sources with a non-empty reference, both in increasing
\* order of i, a source without a field keeping its index; and the
\* "=== REFERENCES ===" section is there iff some source has a reference.
C12_EntriesKeepSourceIndex ==
    pc = "return" =>
        LET n == Len(state.retrieved_sources)
            body[k \in 0..n] ==
                IF k = 0 THEN <<>>
                ELSE body[k - 1] \o
                     (IF ContentOfSource(k) # <<>>
                      THEN Label(k) \o ContentOfSource(k) \o <<"\n", "\n">>
                      ELSE <<>>)
            refs[k \in 0..n] ==
                IF k = 0 THEN <<>>
                ELSE refs[k - 1] \o
                     (IF ReferenceOfSource(k) # <<>>
                      THEN (IF refs[k - 1] # <<>> THEN <<"\n">> ELSE <<>>)
                           \o Label(k) \o ReferenceOfSource(k)
                      ELSE <<>>)
            referenced == \E i \in 1..n : ReferenceOfSource(i) # <<>>
        IN  /\ state.final_answer =
                  ContentFormOpen \o state.current_query \o ContentFormClose
                  \o body[n]
                  \o (IF referenced THEN ReferencesFormHead \o refs[n] ELSE <<>>)
            /\ HasSubstring(state.final_answer, ReferencesFormHead) <=> referenced

\* three sources: the first without content, the second without reference
C12_Witness ==
    /\ pc = "return"
    /\ Len(state.retrieved_sources) = 3
    /\ ContentOfSource(1) = <<>>
    /\ ReferenceOfSource(1) # <<>>
    /\ ContentOfSource(2) # <<>>
    /\ ReferenceOfSource(2) = <<>>
    /\ ReferenceOfSource(3) # <<>>
    /\ HasSubstring(state.final_answer, Label(2) \o ContentOfSource(2))
    /\ HasSubstring(state.final_answer, Label(3) \o ReferenceOfSource(3))

----------------------------------------------------------------------------
(* summarize_sources on its own: every list of up to MaxSummaryBlocks      *)
(* blocks.                                                                 *)

MaxSummaryBlocks == 3

\* a block with a URL: line, with a TITLE: line, with neither, with both,
\* with "URL:" inside a line, with "url:" in small letters, and a block of
\* four long words
SummaryBlocks ==
    { <<"U","R","L",":"," ","u">>,
      <<"T","I","T","L","E",":"," ","t">>,
      <<"x">>,
      <<"T","I","T","L","E",":"," ","t","\n","U","R","L",":"," ","u">>,
      <<"s","e","e"," ","U","R","L",":"," ","u">>,
      <<"u","r","l",":"," ","u">>,
      <<"a","l","p","h","a"," ","b","r","a","v","o"," ","d","e","l","t","a"," ","g","a","m","m","a">> }

InitSummarize ==
    /\ SOURCES = <<>>
    /\ state \in {[InitialState EXCEPT !.retrieved_sources = bs] :
                    bs \in SeqsUpTo(SummaryBlocks, MaxSummaryBlocks)}
    /\ user_input = <<>>
    /\ pc = "call"
    /\ trace = <<>>
    /\ raised = NoException
    /\ submitted = <<>>
    /\ given = <<>>
    /\ returned = <<>>

\* line 115
CallSummarize ==
    /\ pc = "call"
    /\ returned' \in summarize_sources(state.retrieved_sources)
    /\ pc' = "return"
    /\ UNCHANGED <<SOURCES, state, user_input, trace, raised, submitted, given>>

NextSummarize == CallSummarize

SpecSummarize == InitSummarize /\ [][NextSummarize]_vars

UrlMark == <<"U","R","L",":">>
TitleMark == <<"T","I","T","L","E",":">>

BlocksWith(mark) ==
    {i \in DOMAIN state.retrieved_sources : HasSubstring(state.retrieved_sources[i], mark)}

\* C13: the summary of a list of blocks has total = the number of blocks,
\* url count = the number of blocks in which "URL:" occurs, title count =
\* the number of blocks in which "TITLE:" occurs; both counts lie between
\* 0 and total, and a block holding both is counted in both.
C13_SummaryCounts ==
    pc = "return" =>
        /\ returned.total_sources = Len(state.retrieved_sources)
        /\ returned.url_sources = Cardinality(BlocksWith(UrlMark))
        /\ returned.title_sources = Cardinality(BlocksWith(TitleMark))
        /\ returned.url_sources \in 0..returned.total_sources
        /\ returned.title_sources \in 0..returned.total_sources

\* three blocks: one with both marks, one with "URL:" inside a line, one
\* with neither
C13_Witness ==
    /\ pc = "return"
    /\ returned.total_sources = 3
    /\ returned.url_sources = 2
    /\ returned.title_sources = 1
    /\ BlocksWith(UrlMark) \cap BlocksWith(TitleMark) # {}
    /\ \E i \in BlocksWith(UrlMark) : ~StartsWith(state.retrieved_sources[i], UrlMark)

----------------------------------------------------------------------------
(* tokenize on its own: every text of up to MaxTokenizeLen characters.     *)

MaxTokenizeLen == 3

\* a small and a capital letter, a blank, two punctuation characters of
\* which one is the underscore, and a letter outside ASCII
TokenizeChars == {"a", "A", " ", ".", "_", "ß"}

InitTokenize ==
    /\ SOURCES = <<>>
    /\ state \in {[InitialState EXCEPT !.current_query = x] :
                    x \in SeqsUpTo(TokenizeChars, MaxTokenizeLen)}
    /\ user_input = <<>>
    /\ pc = "call"
    /\ trace = <<>>
    /\ raised = NoException
    /\ submitted = <<>>
    /\ given = <<>>
    /\ returned = <<>>

\* line 55
CallTokenize ==
    /\ pc = "call"
    /\ returned' = tokenize(state.current_query)
    /\ pc' = "return"
    /\ UNCHANGED <<SOURCES, state, user_input, trace, raised, submitted, given>>

NextTokenize == CallTokenize

SpecTokenize == InitTokenize /\ [][NextTokenize]_vars

\* the ASCII punctuation characters (string.punctuation), but for the grave
\* accent, which a TLA+ string cannot hold
PunctuationChars ==
    {"!", "\"", "#", "$", "%", "&", "'", "(", ")", "*", "+", ",", "-", ".", "/",
     ":", ";", "<", "=", ">", "?", "@", "[", "\\", "]", "^", "_", "{", "|", "}", "~"}

\* C14 as stated: tokenize returns the empty set for every text made of
\* punctuation characters only.
C14_PunctuationOnlyYieldsNothing ==
    (pc = "return" /\ Range(state.current_query) \subseteq PunctuationChars) =>
        returned = {}

\* str.upper() of one character: a small ASCII letter gives its capital,
\* the sharp s gives "SS", any other character of the model itself
UpperOfChar(c) ==
    IF c \in Range(LowerLetters)
    THEN <<UpperLetters[CHOOSE i \in DOMAIN LowerLetters : LowerLetters[i] = c]>>
    ELSE IF c = "ß" THEN <<"S", "S">>
    ELSE <<c>>

\* str.upper()
UpperCased[text \in Text] ==
    IF text = <<>> THEN <<>> ELSE UpperOfChar(Head(text)) \o UpperCased[Tail(text)]

\* C15 as stated: for every text x, tokenize(x) = tokenize(x.upper()).
C15_UpperCasedTokenizesAlike ==
    pc = "return" => returned = tokenize(UpperCased[state.current_query])

----------------------------------------------------------------------------
(* The graph on its own: agent.invoke on any state dict, whatever its      *)
(* fields hold, over any corpus.                                           *)

\* what an incoming state can carry besides the query: a past query, a
\* source and an answer left by an earlier run
PastQueries == {<<>>, << <<"b">> >>}
LeftSources == {<<>>, << <<"a"," ","b">> >>}
LeftAnswers == {<<>>, <<"o","l","d">>}

InitInvoke ==
    /\ SOURCES \in {load_sources(f) : f \in Files}
    /\ state \in [conversation_history : PastQueries,
                  current_query : RawInputs,
                  retrieved_sources : LeftSources,
                  final_answer : LeftAnswers,
                  error : Errors]
    /\ given = state
    /\ user_input = <<>>
    /\ pc = entry_point
    /\ trace = <<>>
    /\ raised = NoException
    /\ submitted = <<>>
    /\ returned = <<>>

NextInvoke ==
    \/ Planner
    \/ Route
    \/ Researcher
    \/ Responder

SpecInvoke == InitInvoke /\ [][NextInvoke]_vars

\* C16: when the trimmed query is non-empty, Planning leaves error empty
\* whatever error the incoming state carried; the route taken after
\* Planning changes no state and depends on error alone: Responding iff
\* error is non-empty, Researching otherwise, hence Researching for every
\* non-empty query.
C16_PlanningClearsError ==
    /\ [][(pc = "planner" /\ ~QueryIsEmpty) => (state'.error = <<>> /\ pc' = "route")]_vars
    /\ [](pc = "route" /\ ~QueryIsEmpty => state.error = <<>>)
    /\ [][pc = "route" =>
            /\ state' = state
            /\ pc' \in {"responder", "researcher"}
            /\ pc' = "responder" <=> state.error # <<>>
            /\ ~QueryIsEmpty => pc' = "researcher"]_vars

\* a state that came in with an error and a non-empty query, at Researching
C16_Witness ==
    /\ pc = "researcher"
    /\ given.error # <<>>
    /\ state.error = <<>>
    /\ trace = <<"planner">>

\* C17: Planning changes only error, Researching only retrieved_sources
\* and error, Responding only final_answer, the route nothing; so
\* current_query and conversation_history stay as they came in, and after
\* Planning the sources and the answer that came in are still there.
C17_StagesWriteOwnFields ==
    /\ [][/\ pc = "planner" => state' = [state EXCEPT !.error = state'.error]
          /\ pc = "route" => state' = state
          /\ pc = "researcher" =>
                state' = [state EXCEPT !.retrieved_sources = state'.retrieved_sources,
                                       !.error = state'.error]
          /\ pc = "responder" =>
                state' = [state EXCEPT !.final_answer = state'.final_answer]]_vars
    /\ [](/\ state.current_query = given.current_query
          /\ state.conversation_history = given.conversation_history)
    /\ [](pc = "route" =>
            /\ state.retrieved_sources = given.retrieved_sources
            /\ state.final_answer = given.final_answer)

\* sources and an answer that came in have gone through Planning
C17_Witness ==
    /\ pc = "route"
    /\ trace = <<"planner">>
    /\ given.retrieved_sources # <<>>
    /\ given.final_answer # <<>>
    /\ given.conversation_history # <<>>
    /\ state.retrieved_sources = given.retrieved_sources
    /\ state.final_answer = given.final_answer
    /\ state.error # given.error

----------------------------------------------------------------------------
(* Queries without a token (specification Spec).                           *)

EmptyQueryError == <<"E","m","p","t","y"," ","q","u","e","r","y"," ","r","e","c","e","i","v","e","d",".">>

\* the query is not empty once trimmed, and no token is left of it
TokenlessQuery ==
    /\ ~QueryIsEmpty
    /\ tokenize(state.current_query) = {}

====
